---- MODULE Spec2Model ----
(***************************************************************************)
(* A model of klippy/extras/powercore.py: the PowerCore object (feedrate   *)
(* scaling loop, wire tension loop, move segmentation and the coordinator  *)
(* that submits the segments to the toolhead) and its two WireMover        *)
(* actuators.                                                              *)
(*                                                                         *)
(* Numbers.  Python floats are modelled in fixed point:                    *)
(*   - PID inputs, setpoints and outputs are integers in units of 1/Unit,  *)
(*     so the output limits (0, 1) are 0 .. Unit;                          *)
(*   - coordinates are integers in units of 1/Quantum of 0.001 mm, so      *)
(*     round(x, 3) is rounding to a multiple of Quantum;                   *)
(*   - time is counted in ticks; a PID's sample_time is SampleTime ticks;  *)
(*   - a feedrate f mm/s is held as f * 60 * Unit (see scale_move).        *)
(***************************************************************************)
EXTENDS Integers, Sequences, FiniteSets, TLC

\* ------------------------------------------------------------------ scales
Unit == 4
Quantum == 10
SampleTime == 2
PwmRange == 255

\* ------------------------------------------------------------------ bounds
MaxDt == 2

\* Python's None where a string stands for the object
None == "None"
\* ... and where the value is otherwise a number
NoOutput == 0 - 1
NoWake == 0 - 1
\* PowerCore.output before its first assignment
Unset == 0 - 1
\* a move whose speed check_move left alone
Unscaled == 0 - 1
\* no position
NoPos == << >>
\* no duty-cycle sample has produced an output yet
NoSample == 0 - 1

\* ----------------------------------------------------------------- helpers
Min2(a, b) == IF a < b THEN a ELSE b

\* _clamp of the PID's output_limits
Clamp(x, lo, hi) == IF x < lo THEN lo ELSE IF x > hi THEN hi ELSE x

\* Python's round(): n/d (d > 0) to the nearest integer, ties to even
RoundDiv(n, d) ==
    LET q == n \div d
        r == n % d
    IN  IF 2 * r < d THEN q
        ELSE IF 2 * r > d THEN q + 1
        ELSE IF q % 2 = 0 THEN q ELSE q + 1

\* round(output * 255) of wire_tension_callback, output in units of 1/Unit
ScaleToPwm(out) == RoundDiv(out * PwmRange, Unit)

\* --------------------------------------------------------------------- PID
\* PID(Kp, Ki, Kd, setpoint, output_limits=(0, 1), sample_time, time_fn):
\* elapsed is time_fn() - last sample time, capped at MaxDt
PID(kp, ki, kd, setpoint) ==
    [Kp |-> kp, Ki |-> ki, Kd |-> kd, setpoint |-> setpoint,
     integral |-> 0, last_error |-> 0, last_output |-> NoOutput, elapsed |-> 0]

\* reset(): zero the integral and the error history, forget the last output,
\* restart the sample clock; setpoint and gains stay
PidReset(pid) ==
    [pid EXCEPT !.integral = 0, !.last_error = 0,
                !.last_output = NoOutput, !.elapsed = 0]

\* a call sooner than sample_time after the last update computes nothing
PidThrottled(pid) == pid.last_output # NoOutput /\ pid.elapsed < SampleTime

\* pid(input): the controller after the call and the value the call returns
PidCall(pid, input) ==
    IF PidThrottled(pid) THEN [pid |-> pid, out |-> pid.last_output]
    ELSE
    LET dt       == IF pid.elapsed = 0 THEN 1 ELSE pid.elapsed
        error    == pid.setpoint - input
        integ    == Clamp(pid.integral + pid.Ki * error * dt, 0, Unit)
        deriv    == (pid.Kd * (error - pid.last_error)) \div dt
        raw      == pid.Kp * error + integ + deriv
        out      == Clamp(raw, 0, Unit)
    IN  [pid |-> [pid EXCEPT !.integral = integ, !.last_error = error,
                             !.last_output = out, !.elapsed = 0],
         out |-> out]

\* the reactor's monotonic clock advancing by one tick, seen from a PID
PidTick(pid) == [pid EXCEPT !.elapsed = Min2(pid.elapsed + 1, MaxDt)]

\* a controller t ticks after it was built
Aged(pid, t) == [pid EXCEPT !.elapsed = t]

\* --------------------------------------------------------------- WireMover
\* WireMover(toolhead, pin, ...): the toolhead reference it was given and the
\* value last written to its output pin
WireMover(th) == [toolhead |-> th, speed |-> 0]

\* WireMover.set_speed: self.toolhead.get_last_move_time() fails on None
WireMover_set_speed(tool, speed) ==
    IF tool.toolhead = None
    THEN [tool |-> tool, ok |-> FALSE]
    ELSE [tool |-> [tool EXCEPT !.speed = speed], ok |-> TRUE]

\* ------------------------------------------------------------ segmentation
\* toolhead.Move: the displacement of each axis
AxesD(start, end) == [i \in 1..4 |-> end[i] - start[i]]

\* Move.move_d squared (the Euclidean displacement; kept squared, exact)
MoveD2(start, end) ==
    LET d == AxesD(start, end)
    IN  d[1] * d[1] + d[2] * d[2] + d[3] * d[3] + d[4] * d[4]

\* math.ceil(move_dist / target_move_length): the least n with n * L >= d
RECURSIVE CeilFrom(_, _, _)
CeilFrom(n, d2, L) ==
    IF (n * L) * (n * L) >= d2 THEN n ELSE CeilFrom(n + 1, d2, L)

TotalNumSegments(d2, L) == CeilFrom(0, d2, L)

\* round(start_pos[i] + actual_move_length * v, 3): actual_move_length * v
\* is axes_d[i] / n, and 0.001 mm is Quantum units
NextEnd(start, axes_d, n) ==
    [i \in 1..4 |-> Quantum * RoundDiv(start[i] * n + axes_d[i], n * Quantum)]

\* the list split_positions after k descriptors have been built
RECURSIVE SplitPositions(_, _, _, _, _)
SplitPositions(k, start, axes_d, n, speed) ==
    IF k = 1 THEN << <<start, NextEnd(start, axes_d, n), speed>> >>
    ELSE LET prev      == SplitPositions(k - 1, start, axes_d, n, speed)
             start_pos == prev[k - 1][2]
         IN  Append(prev, <<start_pos, NextEnd(start_pos, axes_d, n), speed>>)

\* split_move without last_move[1] = move.end_pos
WithLastEnd_rounded(split_positions, end_pos) == split_positions

\* the last three lines of split_move: last_move[1] = move.end_pos
WithLastEnd(split_positions, end_pos) ==
    LET k == Len(split_positions)
    IN  [split_positions EXCEPT ![k] = <<split_positions[k][1], end_pos,
                                         split_positions[k][3]>>]

\* split_move(newpos, speed) from position pos: the descriptors, or the
\* exception the division by total_num_segments raises
split_move(pos, newpos, speed, L) ==
    LET n == TotalNumSegments(MoveD2(pos, newpos), L)
    IN  IF n = 0 THEN [ok |-> FALSE, fault |-> "ZeroDivisionError", result |-> << >>]
        ELSE [ok |-> TRUE, fault |-> "none",
              result |-> WithLastEnd(
                  SplitPositions(n, pos, AxesD(pos, newpos), n, speed), newpos)]

\* ------------------------------------------------------------------ inputs
Points == { <<0, 0, 0, 0>>, <<30, 40, 0, 0>> }
SplitPoints ==
    { <<x, y, 0, e>> : x \in {0, 33, 0 - 7}, y \in {0, 40}, e \in {0, 12} }
SplitLengths == {7, 15, 25}
Speeds == {50, 100}
SplitDists == {15, 25}
DutyCycles == {0, 2, 4}
MotionDutyCycles == {0, 4}
SetPoints == {1, 3}
FeedRates == {6, 120}
Batches == { <<0>>, <<4, 0>>, <<0, 4>> }
WireTargets == {0, 4}
WireSpeeds == {0, 40}
EnableArgs == {-1, 0, 1}
WakeTimes == {NoWake, 0, 1}
ErrTexts == {"Move out of range"}
Absent == 0 - 1
PidParams == { <<2, 1, Absent>>, <<1, 0, 1>>, <<Absent, Absent, Absent>> }

\* ------------------------------------------------------------------- state
VARIABLES
    toolhead,                 \* PowerCore.toolhead: None until klippy:connect
    commanded_pos,            \* the executor's position (toolhead.get_position)
    move_split_dist,          \* config: target segment length
    scaling_enabled,
    output,                   \* PowerCore.output: not set by __init__
    feedrate_pid_controller,
    target_duty_cycle,
    min_feedrate,
    max_feedrate,
    wire_tension_loop_enabled,
    wire_pid_controller,
    sender_is_primary,        \* config
    sender_wire_tool,
    receiver_wire_tool,
    pc,                       \* the coordinator: "idle", "run" or "paused"
    moves,                    \* execute_moves' list of descriptors still to submit
    wake_time,                \* execute_moves' wake_time of the last sub-move
    mv,                       \* what the current move request did at the executor
    op,                       \* the handler that ran last, with its input
    fault,                    \* the exception that escaped it, or "none"
    responses,                \* what it answered to the operator
    pin_log,                  \* the actuator commands it issued
    output_fresh,             \* pwm_in_callback has stored an output since
                              \* scaling was last disabled (or never enabled)
    sample_age                \* ticks since the feedrate controller last
                              \* computed an output, NoSample before the first

vars == <<toolhead, commanded_pos, move_split_dist, scaling_enabled, output,
          feedrate_pid_controller, target_duty_cycle, min_feedrate,
          max_feedrate, wire_tension_loop_enabled, wire_pid_controller,
          sender_is_primary, sender_wire_tool, receiver_wire_tool, pc, moves,
          wake_time, mv, op, fault, responses, pin_log, sample_age,
          output_fresh>>

feedVars == <<scaling_enabled, output, feedrate_pid_controller,
              target_duty_cycle, min_feedrate, max_feedrate, sample_age,
              output_fresh>>
wireVars == <<wire_tension_loop_enabled, wire_pid_controller,
              sender_wire_tool, receiver_wire_tool>>
motionVars == <<commanded_pos, pc, moves, wake_time, mv>>
configVars == <<move_split_dist, sender_is_primary>>

\* the record of one move request: what was asked (newpos, speed, from
\* start, with scaling enabled or not), the descriptors split_move returned,
\* the toolhead.move calls made and those the executor accepted, the
\* look-ahead callbacks registered, the command errors answered and the
\* gcode:command_error events sent, the sub-move the executor refused, the
\* speed and acceleration check_move gave the last accepted sub-move, and
\* the exception that left move(), if any
NoMove ==
    [newpos |-> NoPos, speed |-> 0, start |-> NoPos, scaled |-> FALSE,
     segs |-> << >>, calls |-> 0, submitted |-> << >>, lookahead |-> 0,
     errors |-> << >>, events |-> 0, failed_at |-> 0,
     feed |-> Unscaled, accel |-> "unscaled", raised |-> "none"]

\* PowerCore.__init__
Init ==
    /\ toolhead = None
    /\ commanded_pos \in Points
    /\ move_split_dist \in SplitDists
    /\ scaling_enabled = FALSE
    /\ output = Unset
    /\ target_duty_cycle = 3
    /\ feedrate_pid_controller \in
           {Aged(PID(1, 0, 0, target_duty_cycle), t) : t \in 0..MaxDt}
    /\ min_feedrate \in FeedRates
    /\ max_feedrate \in {f \in FeedRates : f >= min_feedrate}
    /\ wire_tension_loop_enabled = TRUE
    /\ wire_pid_controller \in
           {Aged(PID(1, ki, 0, 0), t) : ki \in {0, 1}, t \in 0..MaxDt}
    /\ sender_is_primary \in BOOLEAN
    /\ sender_wire_tool = WireMover(toolhead)
    /\ receiver_wire_tool = WireMover(toolhead)
    /\ pc = "idle"
    /\ moves = << >>
    /\ wake_time = NoWake
    /\ mv = NoMove
    /\ op = <<"__init__", None>>
    /\ fault = "none"
    /\ responses = << >>
    /\ pin_log = << >>
    /\ sample_age = NoSample
    /\ output_fresh = FALSE

\* no handler runs while the coordinator is between two sub-moves without
\* having paused: the reactor is cooperative
Idle == pc # "run"

\* -------------------------------------------------------------- connection
\* _handle_connect: looks the toolhead up, installs the move transform and
\* patches kin.check_move; the WireMovers keep the reference they were given
HandleConnect ==
    /\ Idle
    /\ toolhead = None
    /\ toolhead' = "toolhead"
    /\ op' = <<"_handle_connect", None>>
    /\ fault' = "none"
    /\ responses' = << >>
    /\ pin_log' = << >>
    /\ UNCHANGED <<feedVars, wireVars, motionVars, configVars>>

\* the reactor's clock advances
Tick ==
    /\ Idle
    /\ feedrate_pid_controller' = PidTick(feedrate_pid_controller)
    /\ wire_pid_controller' = PidTick(wire_pid_controller)
    /\ sample_age' = IF sample_age = NoSample THEN NoSample
                      ELSE Min2(sample_age + 1, MaxDt)
    /\ UNCHANGED <<toolhead, scaling_enabled, output, output_fresh,
                   target_duty_cycle,
                   min_feedrate, max_feedrate, wire_tension_loop_enabled,
                   sender_wire_tool, receiver_wire_tool, motionVars,
                   configVars, op, fault, responses, pin_log>>

\* --------------------------------------------------------- wire tension loop
\* wire_tension_callback(msg): what it does to the controller and the tools
wire_tension_callback(enabled, pid, primary, sender, receiver, samples) ==
    IF ~enabled
    THEN [pid |-> pid, sender |-> sender, receiver |-> receiver,
          log |-> << >>, fault |-> "none"]
    ELSE
    LET sample == samples[Len(samples)]
        r      == PidCall(pid, sample)
        speed  == ScaleToPwm(r.out)
        s      == WireMover_set_speed(sender, speed)
        v      == WireMover_set_speed(receiver, speed)
    IN  IF primary
        THEN [pid |-> r.pid, sender |-> sender, receiver |-> v.tool,
              log |-> IF v.ok THEN << <<"receiver", speed>> >> ELSE << >>,
              fault |-> IF v.ok THEN "none" ELSE "AttributeError"]
        ELSE [pid |-> r.pid, sender |-> s.tool, receiver |-> receiver,
              log |-> IF s.ok THEN << <<"sender", speed>> >> ELSE << >>,
              fault |-> IF s.ok THEN "none" ELSE "AttributeError"]

WireTensionCallback(samples) ==
    LET r == wire_tension_callback(wire_tension_loop_enabled,
                 wire_pid_controller, sender_is_primary, sender_wire_tool,
                 receiver_wire_tool, samples)
    IN  /\ Idle
        /\ wire_pid_controller' = r.pid
        /\ sender_wire_tool' = r.sender
        /\ receiver_wire_tool' = r.receiver
        /\ pin_log' = r.log
        /\ fault' = r.fault
        /\ responses' = << >>
        /\ op' = <<"wire_tension_callback",
                   IF ~wire_tension_loop_enabled THEN "ignored"
                   ELSE IF PidThrottled(wire_pid_controller) THEN "throttled"
                   ELSE "updated">>
        /\ UNCHANGED <<toolhead, feedVars, wire_tension_loop_enabled,
                       motionVars, configVars>>

\* cmd_SET_WIRE_FEED: the set_speed calls it makes, in order
SetWireFeedTargets(enabled, primary) ==
    IF ~enabled THEN <<"sender", "receiver">>
    ELSE IF primary THEN <<"sender">> ELSE <<"receiver">>

\* set_speed on each of targets in turn, stopping at the first that raises
RECURSIVE SetSpeeds(_, _, _, _)
SetSpeeds(targets, sender, receiver, speed) ==
    IF targets = << >>
    THEN [sender |-> sender, receiver |-> receiver, log |-> << >>,
          fault |-> "none"]
    ELSE
    LET name == Head(targets)
        r    == WireMover_set_speed(
                    IF name = "sender" THEN sender ELSE receiver, speed)
    IN  IF ~r.ok
        THEN [sender |-> sender, receiver |-> receiver, log |-> << >>,
              fault |-> "AttributeError"]
        ELSE LET rest == SetSpeeds(Tail(targets),
                             IF name = "sender" THEN r.tool ELSE sender,
                             IF name = "sender" THEN receiver ELSE r.tool,
                             speed)
             IN  [rest EXCEPT !.log = << <<name, speed>> >> \o rest.log]

cmd_SET_WIRE_FEED(enabled, primary, sender, receiver, speed) ==
    SetSpeeds(SetWireFeedTargets(enabled, primary), sender, receiver, speed)

CmdSetWireFeed(speed) ==
    LET r == cmd_SET_WIRE_FEED(wire_tension_loop_enabled, sender_is_primary,
                 sender_wire_tool, receiver_wire_tool, speed)
    IN  /\ Idle
        /\ sender_wire_tool' = r.sender
        /\ receiver_wire_tool' = r.receiver
        /\ pin_log' = r.log
        /\ fault' = r.fault
        /\ responses' = IF r.fault = "none"
                        THEN << <<"info", "Wire feed speed set">> >>
                        ELSE << >>
        /\ op' = <<"cmd_SET_WIRE_FEED", speed>>
        /\ UNCHANGED <<toolhead, feedVars, wire_tension_loop_enabled,
                       wire_pid_controller, motionVars, configVars>>

\* cmd_SET_WIRE_TENSION_TARGET
CmdSetWireTensionTarget(target) ==
    /\ Idle
    /\ wire_pid_controller' = [wire_pid_controller EXCEPT !.setpoint = target]
    /\ op' = <<"cmd_SET_WIRE_TENSION_TARGET", None>>
    /\ fault' = "none"
    /\ responses' = << <<"info", "Wire tension target set">> >>
    /\ pin_log' = << >>
    /\ UNCHANGED <<toolhead, feedVars, wire_tension_loop_enabled,
                   sender_wire_tool, receiver_wire_tool, motionVars,
                   configVars>>

\* cmd_ENABLE_WIRE_TENSION_LOOP resetting the controller whatever ENABLE is
cmd_ENABLE_WIRE_TENSION_LOOP_always_resets(pid, enable) ==
    [enabled |-> enable # 0, pid |-> PidReset(pid)]

\* cmd_ENABLE_WIRE_TENSION_LOOP: the flag and the controller afterwards
cmd_ENABLE_WIRE_TENSION_LOOP(pid, enable) ==
    LET should_enable == enable # 0
    IN  [enabled |-> should_enable,
         pid |-> IF should_enable THEN PidReset(pid) ELSE pid]

CmdEnableWireTensionLoop(enable) ==
    LET r == cmd_ENABLE_WIRE_TENSION_LOOP(wire_pid_controller, enable)
    IN  /\ Idle
        /\ wire_tension_loop_enabled' = r.enabled
        /\ wire_pid_controller' = r.pid
        /\ op' = <<"cmd_ENABLE_WIRE_TENSION_LOOP", enable>>
        /\ fault' = "none"
        /\ responses' = << <<"info", IF r.enabled
                                     THEN "Wire tension loop enabled"
                                     ELSE "Wire tension loop disabled">> >>
        /\ pin_log' = << >>
        /\ UNCHANGED <<toolhead, feedVars, sender_wire_tool,
                       receiver_wire_tool, motionVars, configVars>>

\* cmd_RESET_WIRE_TENSION_PID
CmdResetWireTensionPid ==
    /\ Idle
    /\ wire_pid_controller' = PidReset(wire_pid_controller)
    /\ op' = <<"cmd_RESET_WIRE_TENSION_PID", None>>
    /\ fault' = "none"
    /\ responses' = << <<"info", "Wire tension PID controller reset">> >>
    /\ pin_log' = << >>
    /\ UNCHANGED <<toolhead, feedVars, wire_tension_loop_enabled,
                   sender_wire_tool, receiver_wire_tool, motionVars,
                   configVars>>

\* ------------------------------------------------------- feedrate scaling loop
\* pwm_in_callback storing nothing usable when the controller declines to
\* compute
pwm_in_callback_drops_output(enabled, pid, out, duty_cycle) ==
    IF ~enabled THEN [pid |-> pid, output |-> out]
    ELSE IF PidThrottled(pid) THEN [pid |-> pid, output |-> Unset]
    ELSE LET r == PidCall(pid, duty_cycle)
         IN  [pid |-> r.pid, output |-> r.out]

\* pwm_in_callback keeping the first output it stored
pwm_in_callback_stores_once(enabled, pid, out, duty_cycle) ==
    IF ~enabled THEN [pid |-> pid, output |-> out]
    ELSE LET r == PidCall(pid, duty_cycle)
         IN  [pid |-> r.pid, output |-> IF out = Unset THEN r.out ELSE out]

\* pwm_in_callback without its test of scaling_enabled
pwm_in_callback_ignores_flag(enabled, pid, out, duty_cycle) ==
    LET r == PidCall(pid, duty_cycle)
    IN  [pid |-> r.pid, output |-> r.out]

\* pwm_in_callback(duty_cycle): the controller and self.output afterwards
pwm_in_callback(enabled, pid, out, duty_cycle) ==
    IF ~enabled THEN [pid |-> pid, output |-> out]
    ELSE LET r == PidCall(pid, duty_cycle)
         IN  [pid |-> r.pid, output |-> r.out]

PwmInCallback(duty_cycle) ==
    LET r == pwm_in_callback(scaling_enabled, feedrate_pid_controller,
                             output, duty_cycle)
    IN  /\ Idle
        /\ feedrate_pid_controller' = r.pid
        /\ output' = r.output
        /\ sample_age' = IF scaling_enabled /\ ~PidThrottled(feedrate_pid_controller)
                          THEN 0 ELSE sample_age
        /\ output_fresh' = IF scaling_enabled THEN TRUE ELSE output_fresh
        /\ op' = <<"pwm_in_callback",
                   IF ~scaling_enabled THEN "ignored"
                   ELSE IF PidThrottled(feedrate_pid_controller) THEN "throttled"
                   ELSE "updated">>
        /\ fault' = "none"
        /\ responses' = << >>
        /\ pin_log' = << >>
        /\ UNCHANGED <<toolhead, scaling_enabled, target_duty_cycle,
                       min_feedrate, max_feedrate, wireVars, motionVars,
                       configVars>>

\* enable_scaling without the reset
enable_scaling_no_reset(pid, enabled) ==
    << [pid |-> pid, enabled |-> enabled],
       [pid |-> pid, enabled |-> TRUE] >>

\* enable_scaling: the (controller, flag) pair after each of its statements
enable_scaling(pid, enabled) ==
    << [pid |-> PidReset(pid), enabled |-> enabled],
       [pid |-> PidReset(pid), enabled |-> TRUE] >>

\* cmd_enable_scaling
CmdEnableScaling ==
    LET steps == enable_scaling(feedrate_pid_controller, scaling_enabled)
        r     == steps[Len(steps)]
    IN  /\ Idle
        /\ feedrate_pid_controller' = r.pid
        /\ scaling_enabled' = r.enabled
        /\ op' = <<"cmd_enable_scaling", steps>>
        /\ fault' = "none"
        /\ responses' = << <<"info", "Enabled powercore move scaling">> >>
        /\ pin_log' = << >>
        /\ UNCHANGED <<toolhead, sample_age, output_fresh, output,
                       target_duty_cycle, min_feedrate,
                       max_feedrate, wireVars, motionVars, configVars>>

\* cmd_disable_scaling, disable_scaling
CmdDisableScaling ==
    /\ Idle
    /\ scaling_enabled' = FALSE
    /\ op' = <<"cmd_disable_scaling", None>>
    /\ fault' = "none"
    /\ responses' = << <<"info", "Disabled powercore move scaling">> >>
    /\ pin_log' = << >>
    /\ output_fresh' = FALSE
    /\ UNCHANGED <<toolhead, sample_age, output, feedrate_pid_controller,
                   target_duty_cycle, min_feedrate, max_feedrate, wireVars,
                   motionVars, configVars>>

\* gcmd.get_float(name, default)
GetFloat(param, default) == IF param = Absent THEN default ELSE param

\* cmd_set_powercore_feedrates without the comparison
cmd_set_powercore_feedrates_unchecked(cur_min, cur_max, MIN, MAX) ==
    [min |-> GetFloat(MIN, cur_min), max |-> GetFloat(MAX, cur_max),
     error |-> FALSE]

\* cmd_set_powercore_feedrates: the pair afterwards and whether it was refused
cmd_set_powercore_feedrates(cur_min, cur_max, MIN, MAX) ==
    LET mn == GetFloat(MIN, cur_min)
        mx == GetFloat(MAX, cur_max)
    IN  IF mn > mx
        THEN [min |-> cur_min, max |-> cur_max, error |-> TRUE]
        ELSE [min |-> mn, max |-> mx, error |-> FALSE]

CmdSetPowercoreFeedrates(MIN, MAX) ==
    LET r == cmd_set_powercore_feedrates(min_feedrate, max_feedrate, MIN, MAX)
    IN  /\ Idle
        /\ min_feedrate' = r.min
        /\ max_feedrate' = r.max
        /\ op' = <<"cmd_set_powercore_feedrates", None>>
        /\ fault' = "none"
        /\ responses' = IF r.error
                        THEN << <<"error", "Min feedrate must be greater than max feedrate!">> >>
                        ELSE << <<"info", "Min feedrate, max_feedrate">> >>
        /\ pin_log' = << >>
        /\ UNCHANGED <<toolhead, sample_age, output_fresh, scaling_enabled, output,
                       feedrate_pid_controller, target_duty_cycle, wireVars,
                       motionVars, configVars>>

\* cmd_reset_pid
CmdResetPid ==
    /\ Idle
    /\ feedrate_pid_controller' = PidReset(feedrate_pid_controller)
    /\ op' = <<"cmd_reset_pid", None>>
    /\ fault' = "none"
    /\ responses' = << <<"info", "Reset powercore PID">> >>
    /\ pin_log' = << >>
    /\ UNCHANGED <<toolhead, sample_age, output_fresh, scaling_enabled,
                   output, target_duty_cycle,
                   min_feedrate, max_feedrate, wireVars, motionVars,
                   configVars>>

\* cmd_set_target_duty_cycle
CmdSetTargetDutyCycle(DUTY_CYCLE) ==
    LET target == GetFloat(DUTY_CYCLE, target_duty_cycle)
    IN  /\ Idle
        /\ target_duty_cycle' = target
        /\ feedrate_pid_controller' =
               [feedrate_pid_controller EXCEPT !.setpoint = target]
        /\ op' = <<"cmd_set_target_duty_cycle", None>>
        /\ fault' = "none"
        /\ responses' = << <<"info", "Target duty cycle">> >>
        /\ pin_log' = << >>
        /\ UNCHANGED <<toolhead, sample_age, output_fresh, scaling_enabled,
                       output, min_feedrate,
                       max_feedrate, wireVars, motionVars, configVars>>

\* cmd_set_pid_params
CmdSetPidParams(KP, KI, KD) ==
    /\ Idle
    /\ feedrate_pid_controller' =
           [feedrate_pid_controller EXCEPT
               !.Kp = GetFloat(KP, feedrate_pid_controller.Kp),
               !.Ki = GetFloat(KI, feedrate_pid_controller.Ki),
               !.Kd = GetFloat(KD, feedrate_pid_controller.Kd)]
    /\ op' = <<"cmd_set_pid_params", None>>
    /\ fault' = "none"
    /\ responses' = << <<"info", "PID Params">> >>
    /\ pin_log' = << >>
    /\ UNCHANGED <<toolhead, sample_age, output_fresh, scaling_enabled,
                   output, target_duty_cycle,
                   min_feedrate, max_feedrate, wireVars, motionVars,
                   configVars>>

\* ------------------------------------------------------- motion coordinator
\* scale_move scaling the output by max_feedrate rather than by the width of
\* the band
scale_move_by_max(out, mn, mx) == mn * Unit + out * mx

\* scale_move: the feedrate given to move.set_speed, times 60 * Unit
\* (min_feedrate + output * (max_feedrate - min_feedrate)) / 60
scale_move(out, mn, mx) == mn * Unit + out * (mx - mn)

\* check_move without its test of scaling_enabled
check_move_always_scales(enabled, out, mn, mx) ==
    IF out = Unset
    THEN [ok |-> FALSE, feed |-> Unscaled, accel |-> "unscaled"]
    ELSE [ok |-> TRUE, feed |-> scale_move(out, mn, mx),
          accel |-> "adjustment_accel"]

\* check_move, after kin_check_move has accepted the move: what the move's
\* speed and acceleration are set to, or (ok false) the AttributeError that
\* reading self.output raises while it has never been assigned
check_move(enabled, out, mn, mx) ==
    IF ~enabled
    THEN [ok |-> TRUE, feed |-> Unscaled, accel |-> "unscaled"]
    ELSE IF out = Unset
    THEN [ok |-> FALSE, feed |-> Unscaled, accel |-> "unscaled"]
    ELSE [ok |-> TRUE, feed |-> scale_move(out, mn, mx),
          accel |-> "adjustment_accel"]

\* the executor's record of an accepted toolhead.move(end, speed)
Submitted(endpos, speed) == [end |-> endpos, speed |-> speed]

\* move(): if self.scaling_enabled
MoveSplits(enabled) == enabled

\* if wake_time: self.reactor.pause(wake_time)
ShouldPause(wt) == wt # NoWake /\ wt # 0

\* self.gcode._respond_error(str(e))
RespondError(text) == text

\* move(newpos, speed) with scaling enabled: split_move, then execute_moves
MoveScaled(newpos, speed) ==
    LET sp == split_move(commanded_pos, newpos, speed, move_split_dist)
    IN  /\ pc = "idle"
        /\ toolhead # None
        /\ MoveSplits(scaling_enabled)
        /\ mv' = [NoMove EXCEPT !.newpos = newpos, !.speed = speed,
                                !.start = commanded_pos,
                                !.scaled = scaling_enabled,
                                !.segs = sp.result, !.raised = sp.fault]
        /\ moves' = sp.result
        /\ pc' = IF sp.ok THEN "run" ELSE "idle"
        /\ fault' = sp.fault
        /\ wake_time' = NoWake
        /\ op' = <<"move", None>>
        /\ responses' = << >>
        /\ pin_log' = << >>
        /\ UNCHANGED <<toolhead, commanded_pos, feedVars, wireVars, configVars>>

\* move(newpos, speed) with scaling disabled: one toolhead.move; a command
\* error of the executor goes to the caller
MoveUnscaled(newpos, speed, err) ==
    LET chk == check_move(scaling_enabled, output, min_feedrate, max_feedrate)
        ok  == err = "none" /\ chk.ok
    IN  /\ pc = "idle"
        /\ toolhead # None
        /\ ~MoveSplits(scaling_enabled)
        /\ mv' = [NoMove EXCEPT !.newpos = newpos, !.speed = speed,
                     !.start = commanded_pos, !.scaled = scaling_enabled,
                     !.calls = 1,
                     !.submitted = IF ok THEN << Submitted(newpos, speed) >>
                                   ELSE << >>,
                     !.feed = IF ok THEN chk.feed ELSE @,
                     !.accel = IF ok THEN chk.accel ELSE @,
                     !.raised = IF err # "none" THEN "gcode.error"
                                ELSE IF ~chk.ok THEN "AttributeError"
                                ELSE "none"]
        /\ commanded_pos' = IF ok THEN newpos ELSE commanded_pos
        /\ fault' = mv'.raised
        /\ op' = <<"move", None>>
        /\ responses' = << >>
        /\ pin_log' = << >>
        /\ UNCHANGED <<toolhead, pc, moves, wake_time, feedVars, wireVars,
                       configVars>>

\* the except clause of execute_moves without its return: the loop goes on
\* with the next descriptor
ExecuteMoveError_goes_on(at, text) ==
    LET move == Head(moves)
        rest == Tail(moves)
        chk  == check_move(scaling_enabled, output, min_feedrate, max_feedrate)
        k    == Len(mv.submitted) + 1
    IN  /\ pc = "run"
        /\ at = "flush" => chk.ok
        /\ mv' = [mv EXCEPT
                    !.calls = @ + 1,
                    !.submitted = IF at = "flush"
                                  THEN Append(@, Submitted(move[2], move[3]))
                                  ELSE @,
                    !.feed = IF at = "flush" THEN chk.feed ELSE @,
                    !.accel = IF at = "flush" THEN chk.accel ELSE @,
                    !.lookahead = IF at = "flush" THEN @ + 1 ELSE @,
                    !.errors = Append(@, RespondError(text)),
                    !.events = @ + 1,
                    !.failed_at = k]
        /\ commanded_pos' = IF at = "flush" THEN move[2] ELSE commanded_pos
        /\ moves' = rest
        /\ pc' = IF rest = << >> THEN "idle" ELSE "run"
        /\ fault' = "none"
        /\ responses' = << <<"error", RespondError(text)>> >>
        /\ UNCHANGED <<toolhead, wake_time, feedVars, wireVars, configVars,
                       op, pin_log>>

\* one turn of execute_moves' loop that ends in the except clause: the
\* executor raised a command error in toolhead.move(), before the sub-move
\* was queued, or in lookahead.flush(), after
ExecuteMoveError(at, text) ==
    LET move == Head(moves)
        chk  == check_move(scaling_enabled, output, min_feedrate, max_feedrate)
        k    == Len(mv.submitted) + 1
    IN  /\ pc = "run"
        /\ at = "flush" => chk.ok
        /\ mv' = [mv EXCEPT
                    !.calls = @ + 1,
                    !.submitted = IF at = "flush"
                                  THEN Append(@, Submitted(move[2], move[3]))
                                  ELSE @,
                    !.feed = IF at = "flush" THEN chk.feed ELSE @,
                    !.accel = IF at = "flush" THEN chk.accel ELSE @,
                    !.lookahead = IF at = "flush" THEN @ + 1 ELSE @,
                    !.errors = Append(@, RespondError(text)),
                    !.events = @ + 1,
                    !.failed_at = k]
        /\ commanded_pos' = IF at = "flush" THEN move[2] ELSE commanded_pos
        /\ moves' = << >>
        /\ pc' = "idle"
        /\ fault' = "none"
        /\ responses' = << <<"error", RespondError(text)>> >>
        /\ UNCHANGED <<toolhead, wake_time, feedVars, wireVars, configVars,
                       op, pin_log>>

\* one turn of the loop in which the executor raises nothing: the sub-move is
\* checked, queued and flushed, the look-ahead callback records wt (NoWake
\* when the executor did not call it), and the coordinator pauses on it
ExecuteMove(wt) ==
    LET move == Head(moves)
        rest == Tail(moves)
        chk  == check_move(scaling_enabled, output, min_feedrate, max_feedrate)
    IN  /\ pc = "run"
        /\ IF ~chk.ok
           THEN /\ mv' = [mv EXCEPT !.calls = @ + 1,
                                    !.raised = "AttributeError"]
                /\ moves' = << >>
                /\ pc' = "idle"
                /\ fault' = "AttributeError"
                /\ UNCHANGED <<commanded_pos, wake_time>>
           ELSE /\ mv' = [mv EXCEPT
                            !.calls = @ + 1,
                            !.submitted = Append(@, Submitted(move[2], move[3])),
                            !.feed = chk.feed, !.accel = chk.accel,
                            !.lookahead = @ + 1]
                /\ commanded_pos' = move[2]
                /\ moves' = rest
                /\ wake_time' = wt
                /\ pc' = IF ShouldPause(wt) THEN "paused"
                         ELSE IF rest = << >> THEN "idle" ELSE "run"
                /\ fault' = "none"
        /\ UNCHANGED <<toolhead, feedVars, wireVars, configVars, op,
                       responses, pin_log>>

\* reactor.pause(wake_time) returns: the loop goes on, or ends
Resume ==
    /\ pc = "paused"
    /\ pc' = IF moves = << >> THEN "idle" ELSE "run"
    /\ UNCHANGED <<toolhead, commanded_pos, moves, wake_time, mv, feedVars,
                   wireVars, configVars, op, fault, responses, pin_log>>

\* split_move applied to a request, nothing submitted
SplitMove(newpos, speed) ==
    LET sp == split_move(commanded_pos, newpos, speed, move_split_dist)
    IN  /\ pc = "idle"
        /\ mv' = [NoMove EXCEPT !.newpos = newpos, !.speed = speed,
                                !.start = commanded_pos, !.scaled = TRUE,
                                !.segs = sp.result, !.raised = sp.fault]
        /\ fault' = sp.fault
        /\ op' = <<"split_move", None>>
        /\ responses' = << >>
        /\ pin_log' = << >>
        /\ UNCHANGED <<toolhead, commanded_pos, pc, moves, wake_time,
                       feedVars, wireVars, configVars>>

\* ---------------------------------------------------------- specifications
WireNext ==
    \/ \E samples \in Batches : WireTensionCallback(samples)
    \/ \E speed \in WireSpeeds : CmdSetWireFeed(speed)
    \/ \E target \in WireTargets : CmdSetWireTensionTarget(target)
    \/ \E enable \in EnableArgs : CmdEnableWireTensionLoop(enable)
    \/ CmdResetWireTensionPid

FeedNext ==
    \/ \E duty_cycle \in DutyCycles : PwmInCallback(duty_cycle)
    \/ CmdEnableScaling
    \/ CmdDisableScaling
    \/ \E MIN \in FeedRates \cup {Absent}, MAX \in FeedRates \cup {Absent} :
           CmdSetPowercoreFeedrates(MIN, MAX)
    \/ CmdResetPid
    \/ \E DUTY_CYCLE \in SetPoints \cup {Absent} :
           CmdSetTargetDutyCycle(DUTY_CYCLE)
    \/ \E params \in PidParams :
           CmdSetPidParams(params[1], params[2], params[3])

MotionNext ==
    \/ \E newpos \in Points, speed \in Speeds : MoveScaled(newpos, speed)
    \/ \E newpos \in Points, speed \in Speeds, err \in {"none", "move"} :
           MoveUnscaled(newpos, speed, err)
    \/ \E at \in {"move", "flush"}, text \in ErrTexts : ExecuteMoveError(at, text)
    \/ \E wt \in WakeTimes : ExecuteMove(wt)
    \/ Resume

Next == HandleConnect \/ Tick \/ WireNext \/ FeedNext \/ MotionNext

\* the whole object
Spec == Init /\ [][Next]_vars

\* parts of the configuration pinned, and a controller whose last sample
\* is long past, for the specifications that leave one loop alone
MotionDefaults ==
    /\ commanded_pos = <<0, 0, 0, 0>>
    /\ move_split_dist = 15

FeedDefaults ==
    /\ min_feedrate = 6
    /\ max_feedrate = 120

FeedAged == feedrate_pid_controller.elapsed = MaxDt

WireDefaults ==
    /\ wire_pid_controller = Aged(PID(1, 0, 0, 0), MaxDt)
    /\ sender_is_primary

\* the wire tension loop alone
WireInit == Init /\ MotionDefaults /\ FeedDefaults /\ FeedAged

WireSpec ==
    /\ WireInit
    /\ [][HandleConnect \/ Tick \/ WireNext]_vars

\* the feedrate scaling loop alone
FeedInit == Init /\ MotionDefaults /\ WireDefaults

FeedSpec ==
    /\ FeedInit
    /\ [][HandleConnect \/ Tick \/ FeedNext]_vars

\* the motion coordinator, with the handlers that decide how a sub-move is
\* scaled
MotionInit == Init /\ FeedDefaults /\ WireDefaults

MotionSpec ==
    /\ MotionInit
    /\ [][\/ HandleConnect
          \/ Tick
          \/ \E duty_cycle \in MotionDutyCycles : PwmInCallback(duty_cycle)
          \/ CmdEnableScaling
          \/ CmdDisableScaling
          \/ CmdResetPid
          \/ MotionNext]_vars

\* the two loops and the commands that enable them, no motion
LoopsInit ==
    Init /\ MotionDefaults /\ FeedDefaults /\ sender_is_primary = TRUE

LoopsSpec ==
    /\ LoopsInit
    /\ [][\/ Tick
          \/ \E duty_cycle \in DutyCycles : PwmInCallback(duty_cycle)
          \/ CmdEnableScaling
          \/ CmdDisableScaling
          \/ \E params \in PidParams :
                 CmdSetPidParams(params[1], params[2], params[3])
          \/ \E samples \in Batches : WireTensionCallback(samples)
          \/ \E enable \in EnableArgs : CmdEnableWireTensionLoop(enable)]_vars

\* scaled moves under every command that changes what scale_move reads
ScaleInit ==
    Init /\ MotionDefaults /\ FeedDefaults /\ WireDefaults /\ FeedAged

ScaleSpec ==
    /\ ScaleInit
    /\ [][\/ HandleConnect
          \/ Tick
          \/ \E duty_cycle \in MotionDutyCycles : PwmInCallback(duty_cycle)
          \/ CmdEnableScaling
          \/ \E MIN \in FeedRates \cup {Absent}, MAX \in FeedRates \cup {Absent} :
                 CmdSetPowercoreFeedrates(MIN, MAX)
          \/ CmdSetTargetDutyCycle(1)
          \/ \E params \in PidParams :
                 CmdSetPidParams(params[1], params[2], params[3])
          \/ MoveScaled(<<30, 40, 0, 0>>, 50)
          \/ \E wt \in {NoWake, 1} : ExecuteMove(wt)
          \/ Resume]_vars

\* split_move on its own, over a wider set of positions and segment lengths
SplitInit ==
    /\ toolhead = "toolhead"
    /\ commanded_pos \in SplitPoints
    /\ move_split_dist \in SplitLengths
    /\ scaling_enabled = TRUE
    /\ output = Unset
    /\ target_duty_cycle = 3
    /\ feedrate_pid_controller = Aged(PID(1, 0, 0, target_duty_cycle), MaxDt)
    /\ FeedDefaults
    /\ wire_tension_loop_enabled = TRUE
    /\ sender_is_primary = TRUE
    /\ WireDefaults
    /\ sender_wire_tool = WireMover(None)
    /\ receiver_wire_tool = WireMover(None)
    /\ pc = "idle"
    /\ moves = << >>
    /\ wake_time = NoWake
    /\ mv = NoMove
    /\ op = <<"__init__", None>>
    /\ fault = "none"
    /\ responses = << >>
    /\ pin_log = << >>
    /\ sample_age = NoSample
    /\ output_fresh = FALSE

SplitSpec ==
    /\ SplitInit
    /\ [][\E newpos \in SplitPoints, speed \in Speeds :
              SplitMove(newpos, speed)]_vars

\* ------------------------------------------------------------------ claims
\* a move request has been made
Requested == mv.newpos # NoPos

\* C1: a move requested while scaling is disabled makes exactly one
\* toolhead.move call, with the requested end position and speed; nothing is
\* split, no look-ahead callback is registered, the coordinator does not
\* pause, and check_move leaves the move's speed and acceleration alone.
C1_UnscaledMoveForwardedOnce ==
    (Requested /\ ~mv.scaled) =>
        /\ mv.calls = 1
        /\ mv.segs = << >>
        /\ mv.lookahead = 0
        /\ mv.errors = << >> /\ mv.events = 0
        /\ pc = "idle" /\ moves = << >>
        /\ mv.raised = "none" =>
               /\ mv.submitted = << Submitted(mv.newpos, mv.speed) >>
               /\ mv.feed = Unscaled
               /\ mv.accel = "unscaled"
               /\ commanded_pos = mv.newpos
        /\ mv.raised # "none" => mv.submitted = << >>

\* an unscaled move was forwarded although an earlier scaling episode had
\* left an output check_move could have scaled it with
C1_Witness ==
    /\ Requested /\ ~mv.scaled /\ mv.raised = "none"
    /\ mv.newpos # mv.start
    /\ output # Unset
    /\ Len(mv.submitted) = 1

\* C2: the descriptors split_move returns start at the current position, end
\* at the requested end position itself, and each ends where the next starts.
C2_DescriptorsChainFromStartToEnd ==
    (Requested /\ mv.scaled /\ mv.segs # << >>) =>
        /\ mv.segs[1][1] = mv.start
        /\ mv.segs[Len(mv.segs)][2] = mv.newpos
        /\ \A i \in 1..(Len(mv.segs) - 1) : mv.segs[i][2] = mv.segs[i + 1][1]

\* three or more descriptors, towards an end position that is not a multiple
\* of the rounding step, from a start that is not one either
C2_Witness ==
    /\ Requested /\ mv.scaled
    /\ Len(mv.segs) >= 3
    /\ mv.newpos[1] % Quantum # 0
    /\ mv.start[1] % Quantum # 0
    /\ mv.segs[Len(mv.segs) - 1][2][1] % Quantum = 0

\* max(1, ceil(d / L)) from d squared: the n >= 1 with (n-1) L < d <= n L,
\* or 1 when d = 0
ExpectedSegments(d2, L) ==
    CHOOSE n \in 1..(d2 + 1) :
        /\ (n * L) * (n * L) >= d2
        /\ n > 1 => ((n - 1) * L) * ((n - 1) * L) < d2

\* C3: split_move returns exactly max(1, ceil(d / L)) descriptors, also for
\* a zero-length move, for which it returns one descriptor and does not fail.
C3_SegmentCount ==
    (Requested /\ mv.scaled) =>
        /\ mv.raised # "ZeroDivisionError"
        /\ Len(mv.segs) = ExpectedSegments(MoveD2(mv.start, mv.newpos),
                                           move_split_dist)

\* every accepted sub-move so far is the next descriptor, in split_move's order
SubmittedInOrder ==
    /\ Len(mv.submitted) <= Len(mv.segs)
    /\ \A i \in 1..Len(mv.submitted) :
           mv.submitted[i] = Submitted(mv.segs[i][2], mv.segs[i][3])

\* C4: a move requested while scaling is enabled, the executor reporting no
\* error, has every descriptor of split_move submitted once and in order: when
\* the request is over there are as many toolhead.move calls as descriptors
\* and the last sub-move ends at the requested position.
C4_AllDescriptorsSubmittedInOrder ==
    (Requested /\ mv.scaled /\ mv.errors = << >>) =>
        /\ SubmittedInOrder
        /\ pc = "idle" =>
               /\ Len(mv.submitted) = Len(mv.segs)
               /\ mv.calls = Len(mv.segs)
               /\ mv.submitted # << >> =>
                      mv.submitted[Len(mv.submitted)].end = mv.newpos

\* C5: a feed-range command whose effective pair has min > max answers an
\* error and changes neither value, and min_feedrate <= max_feedrate always.
C5_FeedRangeRejected ==
    /\ [](min_feedrate <= max_feedrate)
    /\ [][\A MIN \in FeedRates \cup {Absent}, MAX \in FeedRates \cup {Absent} :
            (/\ CmdSetPowercoreFeedrates(MIN, MAX)
             /\ GetFloat(MIN, min_feedrate) > GetFloat(MAX, max_feedrate))
            => /\ min_feedrate' = min_feedrate
               /\ max_feedrate' = max_feedrate
               /\ Len(responses') = 1
               /\ responses'[1][1] = "error"]_vars

\* a feed-range command has just been refused
C5_Witness ==
    /\ op[1] = "cmd_set_powercore_feedrates"
    /\ responses # << >>
    /\ responses[1][1] = "error"

\* the controller's integral and error history are zero
HistoryCleared(pid) ==
    pid.integral = 0 /\ pid.last_error = 0 /\ pid.last_output = NoOutput

SameTuning(p, q) ==
    p.Kp = q.Kp /\ p.Ki = q.Ki /\ p.Kd = q.Kd /\ p.setpoint = q.setpoint

\* C6: enabling a loop resets its controller whatever came before, keeping
\* setpoint and gains; enable_scaling resets before it sets the flag.
C6_EnableResetsPid ==
    [][/\ CmdEnableScaling =>
            /\ HistoryCleared(feedrate_pid_controller')
            /\ SameTuning(feedrate_pid_controller', feedrate_pid_controller)
            /\ scaling_enabled'
            /\ Len(op'[2]) = 2
            /\ HistoryCleared(op'[2][1].pid)
            /\ op'[2][1].enabled = scaling_enabled
            /\ op'[2][2].enabled
            /\ op'[2][2].pid = op'[2][1].pid
       /\ \A enable \in EnableArgs :
            (enable # 0 /\ CmdEnableWireTensionLoop(enable)) =>
                /\ HistoryCleared(wire_pid_controller')
                /\ SameTuning(wire_pid_controller', wire_pid_controller)
                /\ wire_tension_loop_enabled']_vars

\* scaling has just been enabled again while it was enabled, after the
\* integrating controller had driven the output to its upper limit
C6_Witness ==
    /\ op[1] = "cmd_enable_scaling"
    /\ op[2][1].enabled
    /\ output = Unit
    /\ feedrate_pid_controller.Ki > 0
    /\ HistoryCleared(feedrate_pid_controller)
    /\ HistoryCleared(wire_pid_controller)

NonPrimary == IF sender_is_primary THEN "receiver" ELSE "sender"
Primary == IF sender_is_primary THEN "sender" ELSE "receiver"
Tool(name) == IF name = "sender" THEN sender_wire_tool ELSE receiver_wire_tool

\* C7: with the tension loop enabled, a load-cell batch commands exactly one
\* actuator, the non-primary one, to round(output * 255).
C7_BatchDrivesNonPrimary ==
    (op[1] = "wire_tension_callback" /\ op[2] # "ignored") =>
        LET speed == ScaleToPwm(wire_pid_controller.last_output)
        IN  /\ pin_log = << <<NonPrimary, speed>> >>
            /\ Tool(NonPrimary).speed = speed

\* C8: a direct set-wire-feed command sets both actuators when the tension
\* loop is disabled and only the primary one when it is enabled.
C8_DirectFeed ==
    op[1] = "cmd_SET_WIRE_FEED" =>
        IF ~wire_tension_loop_enabled
        THEN /\ pin_log = << <<"sender", op[2]>>, <<"receiver", op[2]>> >>
             /\ sender_wire_tool.speed = op[2]
             /\ receiver_wire_tool.speed = op[2]
        ELSE /\ pin_log = << <<Primary, op[2]>> >>
             /\ Tool(Primary).speed = op[2]

\* C9: when the executor raises a command error at sub-move k, the request
\* ends there: nothing after k is submitted, the error text is answered once,
\* one gcode:command_error event is sent, and what was submitted before k
\* stays submitted.
C9_ErrorAbortsRemainingSubMoves ==
    mv.failed_at > 0 =>
        /\ pc = "idle" /\ moves = << >>
        /\ mv.calls = mv.failed_at
        /\ Len(mv.submitted) \in {mv.failed_at - 1, mv.failed_at}
        /\ SubmittedInOrder
        /\ Len(mv.errors) = 1 /\ mv.errors[1] \in ErrTexts
        /\ mv.events = 1
        /\ commanded_pos = IF mv.submitted = << >> THEN mv.start
                           ELSE mv.submitted[Len(mv.submitted)].end

\* the executor refused the second of at least three sub-moves
C9_Witness ==
    /\ mv.failed_at = 2
    /\ Len(mv.segs) >= 3
    /\ Len(mv.submitted) = 1
    /\ commanded_pos = mv.segs[1][2]

\* a sample arrives sooner than sample_time after the last one that produced
\* an output
TooSoon == sample_age # NoSample /\ sample_age < SampleTime

C11_DisabledLoopIgnoresSample ==
    [][/\ \A duty_cycle \in DutyCycles :
            (~scaling_enabled /\ PwmInCallback(duty_cycle)) =>
                /\ feedrate_pid_controller' = feedrate_pid_controller
                /\ output' = output
       /\ \A samples \in Batches :
            (~wire_tension_loop_enabled /\ WireTensionCallback(samples)) =>
                /\ wire_pid_controller' = wire_pid_controller
                /\ sender_wire_tool' = sender_wire_tool
                /\ receiver_wire_tool' = receiver_wire_tool
                /\ pin_log' = << >>
                /\ fault' = "none"]_vars

\* a duty-cycle sample has just been ignored by a disabled session that holds
\* an output and a controller history from before, the tension loop being
\* disabled too with a history of its own
C11_Witness ==
    /\ op = <<"pwm_in_callback", "ignored">>
    /\ ~scaling_enabled
    /\ output # Unset
    /\ feedrate_pid_controller.last_output # NoOutput
    /\ ~wire_tension_loop_enabled
    /\ wire_pid_controller.last_output # NoOutput

\* C12: within a segmented move, whenever the look-ahead callback of a
\* sub-move recorded a wake time, a value of 0 included, and a sub-move is
\* still to come, the coordinator is suspended before the next sub-move is
\* submitted; while it is suspended nothing is submitted, and only its
\* resumption lets the loop go on.
C12_RecordedWakeTimePauses ==
    [][/\ \A wt \in WakeTimes :
            (/\ wt # NoWake
             /\ ExecuteMove(wt)
             /\ mv'.submitted # mv.submitted
             /\ moves' # << >>) => pc' = "paused"
       /\ pc = "paused" => mv'.submitted = mv.submitted
       /\ (pc = "paused" /\ pc' # "paused") => Resume]_vars

\* the last handler that ran was a duty-cycle sample the controller accepted,
\* and it ran after a sub-move of the current move: the coordinator was
\* suspended between two sub-moves
SampleAcceptedWhileSuspended ==
    /\ op = <<"pwm_in_callback", "updated">>
    /\ mv.scaled
    /\ mv.submitted # << >>

\* C13: a duty-cycle sample accepted while the coordinator is suspended
\* between two sub-moves decides the feedrate of the next sub-move: it is
\* computed from the output of that update, which is the stored output when
\* the coordinator resumes.
C13_NextSubMoveUsesNewOutput ==
    [][\A wt \in WakeTimes :
         (/\ SampleAcceptedWhileSuspended
          /\ ExecuteMove(wt)) =>
             /\ output = feedrate_pid_controller.last_output
             /\ Len(mv'.submitted) = Len(mv.submitted) + 1
             /\ mv'.feed = min_feedrate * Unit
                           + feedrate_pid_controller.last_output
                             * (max_feedrate - min_feedrate)
             /\ mv'.accel = "adjustment_accel"]_vars

\* a sample was accepted during a suspension of the current move and the
\* sub-move after it has gone out, without another suspension, at the
\* feedrate of the new output
C13_Witness ==
    /\ SampleAcceptedWhileSuspended
    /\ pc = "run" /\ wake_time = NoWake
    /\ Len(mv.submitted) >= 2
    /\ output = 0
    /\ mv.feed = min_feedrate * Unit

\* C14: scaling disabled while a segmented move is suspended takes effect at
\* the next sub-move: the disable itself alters nothing of the move, and
\* every sub-move of that move submitted afterwards goes to the executor with
\* the descriptor's end and speed, its speed and acceleration untouched and
\* the stored output not consulted, the sub-moves before it staying as they
\* were.
C14_DisableTakesEffectAtNextSubMove ==
    [][/\ CmdDisableScaling =>
            /\ mv' = mv /\ moves' = moves /\ pc' = pc
            /\ commanded_pos' = commanded_pos
       /\ \A wt \in WakeTimes :
            (ExecuteMove(wt) /\ mv.scaled /\ ~scaling_enabled) =>
                /\ Len(mv'.submitted) = Len(mv.submitted) + 1
                /\ SubSeq(mv'.submitted, 1, Len(mv.submitted)) = mv.submitted
                /\ mv'.submitted[Len(mv'.submitted)]
                       = Submitted(Head(moves)[2], Head(moves)[3])
                /\ mv'.feed = Unscaled
                /\ mv'.accel = "unscaled"
                /\ output' = output
                /\ fault' = "none"]_vars

\* scaling was disabled during a suspension of a move that began scaled, and
\* a later sub-move of it has gone out unscaled
C14_Witness ==
    /\ op[1] = "cmd_disable_scaling"
    /\ mv.scaled /\ ~scaling_enabled
    /\ pc = "run" /\ wake_time = NoWake
    /\ Len(mv.submitted) >= 2
    /\ mv.feed = Unscaled
    /\ mv.accel = "unscaled"

\* C15: every sub-move scaled while scaling is enabled gets the feedrate
\* (min_feedrate + output * (max_feedrate - min_feedrate)) / 60 and the fixed
\* adjustment acceleration, from the min, max and output current when it is
\* submitted; a stored output is within [0, 1], so that feedrate is within
\* [min_feedrate / 60, max_feedrate / 60].
C15_ScaledFeedrateWithinBand ==
    /\ [](output # Unset => (0 <= output /\ output <= Unit))
    /\ [][\A wt \in WakeTimes :
            (/\ ExecuteMove(wt)
             /\ scaling_enabled
             /\ mv'.submitted # mv.submitted) =>
                /\ mv'.feed = min_feedrate * Unit
                              + output * (max_feedrate - min_feedrate)
                /\ mv'.accel = "adjustment_accel"
                /\ min_feedrate * Unit <= mv'.feed
                /\ mv'.feed <= max_feedrate * Unit]_vars

\* a sub-move has gone out strictly inside the band, after the gains were
\* changed, with an output strictly between the limits
C15_Witness ==
    /\ mv.scaled /\ scaling_enabled
    /\ mv.submitted # << >>
    /\ feedrate_pid_controller.Ki > 0
    /\ output > 0 /\ output < Unit
    /\ min_feedrate < max_feedrate
    /\ mv.feed = min_feedrate * Unit + output * (max_feedrate - min_feedrate)
    /\ mv.accel = "adjustment_accel"

\* C16: at startup scaling is disabled and the stored output is 0, the stored
\* output is defined in every reachable state, and a move requested after
\* enable_scaling and before any accepted sample does not fail: its sub-moves
\* are scaled with output 0, at min_feedrate / 60.
C16_OutputDefinedFromStartup ==
    /\ op[1] = "__init__" => (~scaling_enabled /\ output = 0)
    /\ output # Unset
    /\ mv.raised # "AttributeError"
    /\ (mv.scaled /\ scaling_enabled /\ ~output_fresh /\ pc = "idle"
        /\ mv.start # mv.newpos /\ mv.errors = << >>) =>
           /\ Len(mv.submitted) = Len(mv.segs)
           /\ mv.feed = min_feedrate * Unit

\* no command has been handled yet: only construction, the connect event
\* and the passing of time
BeforeAnyCommand == op[1] \in {"__init__", "_handle_connect"}

\* C17: at startup both enable flags are off: before any enable command,
\* scaling is disabled and the wire tension loop is disabled, and a
\* load-cell batch arriving then is ignored, driving no actuator.
C17_LoopsDisabledAtStartup ==
    /\ []((BeforeAnyCommand) =>
            (~scaling_enabled /\ ~wire_tension_loop_enabled))
    /\ [][\A samples \in Batches :
            (BeforeAnyCommand /\ WireTensionCallback(samples)) =>
                /\ op'[2] = "ignored"
                /\ wire_pid_controller' = wire_pid_controller
                /\ pin_log' = << >>
                /\ fault' = "none"]_vars

\* the last handler called WireMover.set_speed
SetSpeedRan ==
    \/ op[1] = "cmd_SET_WIRE_FEED"
    \/ op[1] = "wire_tension_callback" /\ op[2] # "ignored"

\* C18: after the connect event each WireMover holds the connected toolhead,
\* not the unset value PowerCore.toolhead had when it was built, so a
\* set_speed that runs then reaches the output pin and raises nothing.
C18_WireMoverHoldsConnectedToolhead ==
    toolhead # None =>
        /\ sender_wire_tool.toolhead = toolhead
        /\ receiver_wire_tool.toolhead = toolhead
        /\ SetSpeedRan => (fault = "none" /\ pin_log # << >>)

\* C19: after scaling is disabled and enabled again, no sub-move is scaled
\* with the output left from before the disable: whenever a sub-move is
\* scaled, pwm_in_callback has stored an output since scaling was last
\* enabled from the disabled state.
C19_NoStaleOutputAfterReenable ==
    [][\A wt \in WakeTimes :
         (/\ ExecuteMove(wt)
          /\ scaling_enabled
          /\ mv'.submitted # mv.submitted) => output_fresh]_vars

\* C20: ENABLE_WIRE_TENSION_LOOP with ENABLE=0 disables the loop and does
\* nothing else: it commands neither actuator, both keep their last commanded
\* speed, and the tension controller is not reset.
C20_DisableLeavesActuatorsAndPid ==
    [][CmdEnableWireTensionLoop(0) =>
         /\ ~wire_tension_loop_enabled'
         /\ wire_pid_controller' = wire_pid_controller
         /\ sender_wire_tool' = sender_wire_tool
         /\ receiver_wire_tool' = receiver_wire_tool
         /\ pin_log' = << >>
         /\ fault' = "none"]_vars

\* the loop has just been disabled with a controller that has a history: an
\* output, an error and an integral from the batches it was given
C20_Witness ==
    /\ op = <<"cmd_ENABLE_WIRE_TENSION_LOOP", 0>>
    /\ ~wire_tension_loop_enabled
    /\ wire_pid_controller.last_output # NoOutput
    /\ wire_pid_controller.last_output > 0
    /\ wire_pid_controller.last_error # 0

====
